---- MODULE Spec2Model ----
(***************************************************************************)
(* Model of the batching DataLoader (package dataloader): one DataLoader   *)
(* with its mutex-protected cache and open batch, the per-batch timer      *)
(* goroutine, the size-cap finalisation goroutine, and caller goroutines   *)
(* issuing Load, LoadAll, Prime and Clear.                                 *)
(*                                                                         *)
(* Every section of code that runs with l.mu held is one atomic action.    *)
(* batch.end runs without the mutex and is split in the call of fetch and  *)
(* its return (assignment of data/error and close(done)).                  *)
(*                                                                         *)
(* A second part models the routing layers above it (package dataloaders): *)
(* an ObjAttrDataLoader over one AttrDataLoader over one DataLoader per    *)
(* attribute, with the three kinds of mutex as variables: taking a mutex   *)
(* is a step of its own, so that what a goroutine holds is part of the     *)
(* state.                                                                  *)
(***************************************************************************)
EXTENDS Integers, Sequences, FiniteSets, TLC

\* ------------------------------------------------------------------ bounds
NumThreads == 2      \* caller goroutines
NumKeys == 2         \* distinct keys
MaxKeysLen == 2      \* longest key list handed to LoadAll
MaxOps == 3          \* Load, Prime and Clear calls per run
MaxLoadAlls == 2     \* LoadAll calls per run
MaxBatches == 2      \* batches allocated per run
MaxMaxBatch == 2     \* largest maxBatch the loader is constructed with
MaxCalls == 2        \* calls made through the ObjAttrDataLoader per run
MaxRoutingMaxBatch == 1  \* largest maxBatch of the loaders under the routing layers

Threads == 1..NumThreads
Keys == 1..NumKeys
Values == {"a", "b"}
Nil == "nil"         \* Go nil: the zero Value and the nil error
Errs == {"E"}
NoBatch == 0         \* l.batch == nil

\* The routing layers as the embedder configured them: one object type with
\* an initializer, two attributes with an initializer, a value propagator on
\* the attribute "id". "ghost" and "none" are not registered.
ObjectTypes == {"account", "ghost"}
RegObjectTypes == {"account"}
Attributes == {"id", "email", "none"}
RegAttributes == {"id", "email"}
Propagators == {"id"}

\* The mutexes: ObjAttrDataLoader.mu, AttrDataLoader.mu, and DataLoader.mu of
\* the loader of each attribute. A mutex is Free or held by a caller
\* goroutine or by the timer goroutine of a batch.
MuObj == <<"ObjAttrDataLoader">>
MuAttr == <<"AttrDataLoader">>
MuData(attribute) == <<"DataLoader", attribute>>
Mutexes == {MuObj, MuAttr} \cup {MuData(a) : a \in RegAttributes}
Free == 0
TimerOf(bi) == 0 - bi

VARIABLES
    maxBatch,   \* DataLoader.maxBatch
    cache,      \* DataLoader.cache: function from the cached keys to values
    cur,        \* DataLoader.batch: index into batches, or NoBatch
    batches,    \* every batch allocated so far (heap objects), by index
    threads,    \* caller goroutines: the call in progress and its results
    nops,       \* API calls started
    ret,        \* what the calls of Prime returned last: <<>> or one boolean
    hist,       \* per key: the last write to its cache slot
    loaded,     \* per key: first value loaded successfully since the last Clear
    lastFetch,  \* per key: what the fetch that finished last with the key reported
    objInitLoaders, \* ObjAttrDataLoader.initLoaders: "func" or "nil" per key
    objLoaders,     \* ObjAttrDataLoader.loaders: instance number per key
    attrInitLoaders,\* AttrDataLoader.initLoaders: "func" or "nil" per key
    attrLoaders,    \* AttrDataLoader.loaders: instance number per key
    inits,          \* calls of each initializer so far
    dls,            \* the DataLoader of each attribute: cache, batch, batches
    mu,             \* holder of each mutex
    calls,          \* caller goroutines of the routing layers
    ncalls          \* calls started through the ObjAttrDataLoader

\* The state of the routing layers.
uvars == <<objInitLoaders, objLoaders, attrInitLoaders, attrLoaders, inits,
           dls, mu, calls, ncalls>>

vars == <<maxBatch, cache, cur, batches, threads, nops, ret, hist, loaded, lastFetch, uvars>>

\* ------------------------------------------------------- data structures

\* []error as fetch returns it: a nil slice and an empty non-nil slice differ.
ErrSlice(isNil, list) == [isNil |-> isNil, list |-> list]
NilErrSlice == ErrSlice(TRUE, <<>>)

\* &batch{done: make(chan struct{})}
NewBatch ==
    [keys |-> <<>>, data |-> <<>>, error |-> NilErrSlice, closing |-> FALSE,
     done |-> 0,            \* number of close(b.done) executed
     timer |-> "none",     \* startTimer goroutine: none, sleeping, exited
     ending |-> 0,          \* goroutines that entered b.end, before fetch
     fetching |-> 0,        \* goroutines inside l.fetch(b.keys)
     fetched |-> 0,         \* number of calls of l.fetch for this batch
     arg |-> <<>>]          \* key list handed to the last call of fetch

\* The closure LoadThunk returns.
HitThunk(key, it) == [hit |-> TRUE, val |-> it, batch |-> NoBatch, pos |-> 0, key |-> key]
MissThunk(key, b, pos) == [hit |-> FALSE, val |-> Nil, batch |-> b, pos |-> pos, key |-> key]

IdleThread ==
    [pc |-> "idle", op |-> "none", keys |-> <<>>, thunks |-> <<>>,
     values |-> <<>>, errors |-> <<>>, data |-> Nil, err |-> Nil]

\* (held: for a Clear, whether a batch not yet done held the key)
NoHist == [op |-> "none", val |-> Nil, force |-> FALSE, held |-> FALSE]
NotLoaded == "none"

SeqsUpTo(S, n) == UNION {[1..m -> S] : m \in 0..n}

\* What a fetcher may return for n keys: values for every key or one short,
\* errors nil, empty, a single shared entry, or one entry per key.
FetchResults(n) ==
    {[data |-> d, error |-> e] :
        d \in UNION {[1..m -> Values] : m \in {n - 1, n}},
        e \in {NilErrSlice, ErrSlice(FALSE, <<>>)}
              \cup {ErrSlice(FALSE, l) : l \in [1..1 -> Errs \cup {Nil}]}
              \cup {ErrSlice(FALSE, l) : l \in [1..n -> Errs \cup {Nil}]}}

\* A fetcher over a fixed backend: every key has its value, and the fetch
\* reports no error, one shared error, or an error per key.
BackendValue(key) == IF key % 2 = 1 THEN "a" ELSE "b"
BackendResults(keys) ==
    {[data |-> [i \in 1..Len(keys) |-> BackendValue(keys[i])], error |-> e] :
        e \in {NilErrSlice, ErrSlice(FALSE, <<"E">>)}
              \cup {ErrSlice(FALSE, l) : l \in [1..Len(keys) -> Errs \cup {Nil}]}}

\* An error without a type of its own, as fmt.Errorf makes it.
fmtErrorf == "error"

\* The two routing errors.
NewAttrNotRegError == "AttrNotRegError"
NewObjTypeNotRegError == "ObjTypeNotRegError"

\* The last write to a cache slot of an attribute's DataLoader.
NoWrite == [op |-> "none", val |-> Nil]

\* NewDataLoader(maxBatch, wait, fetch), as the attribute initializers call it.
NewDataLoader ==
    [cache |-> <<>>, batch |-> NoBatch, batches |-> <<>>,
     hist |-> [k \in Keys |-> NoWrite]]

\* A caller goroutine of the routing layers: the call it makes at the top,
\* the call in flight below it (fn, fattr, fkey, fval, fforce; inProp when
\* the propagator makes it), and what came back.
IdleCall ==
    [pc |-> "idle", op |-> "none", objectType |-> Nil, attribute |-> Nil,
     keys |-> <<>>, value |-> Nil,
     fn |-> "none", fattr |-> Nil, fkey |-> 0, fval |-> Nil, fforce |-> FALSE,
     inProp |-> FALSE,
     thunks |-> <<>>, values |-> <<>>, errors |-> <<>>,
     ret |-> <<>>,         \* what Prime or ForcePrime returned
     props |-> <<>>,       \* arguments the propagator was invoked with
     pi |-> 0,             \* propagator invocations considered so far
     isLoading |-> <<>>]   \* what IsLoadingError said of the returned error

\* An int boxed in a Value (interface{}), as distinct from every account.
IntValue(i) == <<"int 0", "int 1", "int 2", "int 3", "int 4">>[i + 1]

\* The key under which the propagator of "id" primes "email": the value's
\* email attribute (the backend holds "a" under 1 and "b" under 2).
EmailOf(value) == IF value = "a" THEN 1 ELSE 2

InitRouting ==
    /\ objInitLoaders = [o \in RegObjectTypes |-> "func"]
    /\ objLoaders = <<>>
    /\ attrInitLoaders = [a \in RegAttributes |-> "func"]
    /\ attrLoaders = <<>>
    /\ inits = [x \in RegObjectTypes \cup RegAttributes |-> 0]
    /\ dls = [a \in RegAttributes |-> NewDataLoader]
    /\ mu = [m \in Mutexes |-> Free]
    /\ calls = [t \in Threads |-> IdleCall]
    /\ ncalls = 0

Init ==
    /\ InitRouting
    /\ maxBatch \in 0..MaxMaxBatch
    /\ cache = <<>>
    /\ cur = NoBatch
    /\ batches = <<>>
    /\ threads = [t \in Threads |-> IdleThread]
    /\ nops = 0
    /\ ret = <<>>
    /\ hist = [k \in Keys |-> NoHist]
    /\ loaded = [k \in Keys |-> NotLoaded]
    /\ lastFetch = [k \in Keys |-> "none"]

\* ------------------------------------------------------------ DataLoader

\* Faulty unsafeSet: the write is lost.
unsafeSet_Drops(c, key, value) == c

\* Faulty unsafeSet: an entry that exists is not overwritten.
unsafeSet_KeepsOld(c, key, value) ==
    [k \in DOMAIN c \cup {key} |-> IF k \in DOMAIN c THEN c[k] ELSE value]

\* l.cache[key] = value (the map is created on first use)
unsafeSet(c, key, value) ==
    [k \in DOMAIN c \cup {key} |-> IF k = key THEN value ELSE c[k]]

\* Faulty delete: the entry stays.
cacheDelete_Noop(c, key) == c

\* delete(l.cache, key)
cacheDelete(c, key) == [k \in DOMAIN c \ {key} |-> c[k]]

\* Faulty scan: an equal key is never found.
scanKeys_NeverFinds(keys, key) == -1

\* The linear scan of keyIndex: index of key in keys (0-based), or -1.
scanKeys(keys, key) ==
    IF \E i \in 1..Len(keys) : keys[i] = key
    THEN (CHOOSE i \in 1..Len(keys) :
              /\ keys[i] = key
              /\ \A j \in 1..(i - 1) : keys[j] # key) - 1
    ELSE -1

\* Faulty keyIndex: for a key found it returns the last index of the batch.
keyIndexPos_LastPos(keys, key) ==
    IF \E i \in 1..Len(keys) : keys[i] = key THEN Len(keys) - 1 ELSE Len(keys)

\* Position keyIndex returns for key in a batch holding keys.
keyIndexPos(keys, key) ==
    IF scanKeys(keys, key) >= 0 THEN scanKeys(keys, key) ELSE Len(keys)

\* Faulty limit test: pos >= maxBatch, one key late.
keyIndexCloses_OffByOne(b, key, mb) ==
    /\ \A i \in 1..Len(b.keys) : b.keys[i] # key
    /\ mb # 0
    /\ Len(b.keys) >= mb
    /\ ~b.closing

\* keyIndex hit the batch limit with this append and finalises the batch.
keyIndexCloses(b, key, mb) ==
    /\ scanKeys(b.keys, key) < 0
    /\ mb # 0
    /\ Len(b.keys) >= mb - 1
    /\ ~b.closing

\* The batch after keyIndex(l, key).
keyIndexBatch(b, key, mb) ==
    IF scanKeys(b.keys, key) >= 0 THEN b
    ELSE LET pos == Len(b.keys)
             b1 == [b EXCEPT !.keys = Append(b.keys, key),
                             !.timer = IF pos = 0 THEN "sleeping" ELSE b.timer]
         IN IF keyIndexCloses(b, key, mb)
            THEN [b1 EXCEPT !.closing = TRUE, !.ending = b1.ending + 1]
            ELSE b1

\* Faulty thunk: it reads the cache, not its slot of the batch.
thunkData_FromCache(b, pos) ==
    IF b.keys[pos + 1] \in DOMAIN cache THEN cache[b.keys[pos + 1]] ELSE Nil

\* Value the thunk reads for position pos.
thunkData(b, pos) == IF pos < Len(b.data) THEN b.data[pos + 1] ELSE Nil

\* The thunk indexes batch.error out of range.
thunkPanics(b, pos) ==
    /\ Len(b.error.list) # 1
    /\ ~b.error.isNil
    /\ pos >= Len(b.error.list)

\* Error the thunk reads for position pos (when it does not panic).
thunkErr(b, pos) ==
    IF Len(b.error.list) = 1 THEN b.error.list[1]
    ELSE IF ~b.error.isNil THEN b.error.list[pos + 1]
    ELSE Nil

\* -------------------------------------------------------------- actions

\* After a thunk was stored: LoadAll goes on with the next key, or resolves.
afterThunk(th, thunk) ==
    [th EXCEPT !.thunks = Append(th.thunks, thunk),
               !.pc = IF Len(th.thunks) + 1 = Len(th.keys) THEN "resolve" ELSE "enqueue"]

\* LoadThunk(key), under l.mu, called by thread t whose call record is th;
\* key is the next key of th.
LoadThunk(t, th) ==
    LET key == th.keys[Len(th.thunks) + 1]
    IN IF key \in DOMAIN cache
       THEN /\ threads' = [threads EXCEPT ![t] = afterThunk(th, HitThunk(key, cache[key]))]
            /\ UNCHANGED <<cur, batches>>
       ELSE /\ cur = NoBatch => Len(batches) < MaxBatches
            /\ LET bi == IF cur = NoBatch THEN Len(batches) + 1 ELSE cur
                   b == IF cur = NoBatch THEN NewBatch ELSE batches[cur]
                   nb == keyIndexBatch(b, key, maxBatch)
               IN /\ batches' = IF cur = NoBatch THEN Append(batches, nb)
                                ELSE [batches EXCEPT ![bi] = nb]
                  /\ cur' = IF keyIndexCloses(b, key, maxBatch) THEN NoBatch ELSE bi
                  /\ threads' = [threads EXCEPT ![t] =
                         afterThunk(th, MissThunk(key, bi, keyIndexPos(b.keys, key)))]

\* Load(key): LoadThunk(key) runs; the thunk it returns is called next.
Load(t, key) ==
    /\ threads[t].pc = "idle"
    /\ nops < MaxOps
    /\ nops' = nops + 1
    /\ LoadThunk(t, [IdleThread EXCEPT !.op = "Load", !.keys = <<key>>])
    /\ UNCHANGED <<maxBatch, cache, ret, hist, loaded, lastFetch, uvars>>

\* LoadAll(keys): LoadThunk runs for the first key; with no keys the call
\* returns at once.
LoadAll(t, keys) ==
    /\ threads[t].pc = "idle"
    /\ nops < MaxLoadAlls
    /\ nops' = nops + 1
    /\ IF keys = <<>>
       THEN /\ threads' = [threads EXCEPT ![t] = [IdleThread EXCEPT !.op = "LoadAll"]]
            /\ UNCHANGED <<cur, batches>>
       ELSE LoadThunk(t, [IdleThread EXCEPT !.op = "LoadAll", !.keys = keys])
    /\ UNCHANGED <<maxBatch, cache, ret, hist, loaded, lastFetch, uvars>>

\* LoadAll, first loop: LoadThunk runs for the next key.
LoadAllEnqueue(t) ==
    /\ threads[t].pc = "enqueue"
    /\ LoadThunk(t, threads[t])
    /\ UNCHANGED <<maxBatch, cache, nops, ret, hist, loaded, lastFetch, uvars>>

\* After a thunk was called: next thunk, or the call returns.
afterResolve(th, value, err) ==
    [th EXCEPT !.values = Append(th.values, value),
               !.errors = Append(th.errors, err),
               !.pc = IF Len(th.values) + 1 = Len(th.keys) THEN "idle" ELSE "resolve"]

\* Faulty thunk: the result is cached whatever the error.
thunkCaches_Always(err) == TRUE

\* The thunk writes its result to the cache.
thunkCaches(err) == err = Nil

\* Thread t calls its next thunk: waits for done and reads its slot, holding
\* no mutex; with an error, or from a cache hit, it returns at once.
\* An index out of range panics: the goroutine leaves the call for good (the
\* other goroutines go on, as they do under a caller that recovers).
Thunk(t) ==
    /\ threads[t].pc = "resolve"
    /\ LET th == threads[t]
           thunk == th.thunks[Len(th.values) + 1]
       IN IF thunk.hit
          THEN threads' = [threads EXCEPT ![t] = afterResolve(th, thunk.val, Nil)]
          ELSE LET b == batches[thunk.batch] IN
               /\ b.done > 0
               /\ threads' = [threads EXCEPT ![t] =
                      IF thunkPanics(b, thunk.pos) THEN [th EXCEPT !.pc = "panic"]
                      ELSE IF thunkCaches(thunkErr(b, thunk.pos))
                      THEN [th EXCEPT !.data = thunkData(b, thunk.pos),
                                      !.err = thunkErr(b, thunk.pos), !.pc = "unsafeSet"]
                      ELSE afterResolve(th, thunkData(b, thunk.pos), thunkErr(b, thunk.pos))]
    /\ UNCHANGED <<maxBatch, cache, cur, batches, nops, ret, hist, loaded, lastFetch, uvars>>

\* The thunk, from l.mu.Lock() on: it stores what it read before taking the
\* mutex, releases the mutex and returns.
ThunkUnsafeSet(t) ==
    /\ threads[t].pc = "unsafeSet"
    /\ LET th == threads[t]
           thunk == th.thunks[Len(th.values) + 1]
       IN /\ cache' = unsafeSet(cache, thunk.key, th.data)
          /\ hist' = [hist EXCEPT ![thunk.key] = [NoHist EXCEPT !.op = "Set", !.val = th.data]]
          /\ loaded' = [loaded EXCEPT ![thunk.key] = IF @ = NotLoaded THEN th.data ELSE @]
          /\ threads' = [threads EXCEPT ![t] =
                 afterResolve([th EXCEPT !.data = Nil, !.err = Nil], th.data, th.err)]
    /\ UNCHANGED <<maxBatch, cur, batches, nops, ret, lastFetch, uvars>>

\* Faulty Prime: the lookup of the key is skipped.
primeIt_Always(c, key, forcePrime) == TRUE

\* Whether Prime stores the value.
primeIt(c, key, forcePrime) == forcePrime \/ key \notin DOMAIN c

\* Prime(key, value, forcePrime), under l.mu.
Prime(key, value, forcePrime) ==
    /\ nops < MaxOps
    /\ nops' = nops + 1
    /\ cache' = IF primeIt(cache, key, forcePrime) THEN unsafeSet(cache, key, value) ELSE cache
    /\ ret' = <<primeIt(cache, key, forcePrime)>>
    /\ hist' = IF primeIt(cache, key, forcePrime)
               THEN [hist EXCEPT ![key] =
                        [NoHist EXCEPT !.op = "Prime", !.val = value, !.force = forcePrime]]
               ELSE hist
    /\ UNCHANGED <<maxBatch, cur, batches, threads, loaded, lastFetch, uvars>>

\* Clear(key), under l.mu.
Clear(key) ==
    /\ nops < MaxOps
    /\ nops' = nops + 1
    /\ cache' = cacheDelete(cache, key)
    /\ hist' = [hist EXCEPT ![key] =
           [NoHist EXCEPT !.op = "Clear",
                          !.held = \E bi \in 1..Len(batches) :
                                      /\ batches[bi].done = 0
                                      /\ \E p \in 1..Len(batches[bi].keys) :
                                             batches[bi].keys[p] = key]]
    /\ loaded' = [loaded EXCEPT ![key] = NotLoaded]
    /\ UNCHANGED <<maxBatch, cur, batches, threads, ret, lastFetch, uvars>>

\* Faulty timer: it finalises the batch without looking at closing.
timerBatch_IgnoresClosing(b) ==
    [b EXCEPT !.timer = "exited", !.ending = b.ending + 1]

\* The batch after startTimer woke up and took l.mu.
timerBatch(b) ==
    IF b.closing THEN [b EXCEPT !.timer = "exited"]
    ELSE [b EXCEPT !.timer = "exited", !.ending = b.ending + 1]

\* Faulty timer: l.batch is left alone.
timerDetached_Never(b, c) == c

\* l.batch after startTimer ran on batch b.
timerDetached(b, c) == IF b.closing THEN c ELSE NoBatch

\* startTimer: the sleep is over; under l.mu the batch is detached unless closing.
startTimer(bi) ==
    /\ batches[bi].timer = "sleeping"
    /\ batches' = [batches EXCEPT ![bi] = timerBatch(batches[bi])]
    /\ cur' = timerDetached(batches[bi], cur)
    /\ UNCHANGED <<maxBatch, cache, threads, nops, ret, hist, loaded, lastFetch, uvars>>

\* end, first half: l.fetch(b.keys) is called (no mutex held).
endFetch(bi) ==
    /\ batches[bi].ending > 0
    /\ batches' = [batches EXCEPT ![bi] =
           [@ EXCEPT !.ending = @ - 1, !.fetching = @ + 1, !.fetched = @ + 1,
                     !.arg = batches[bi].keys]]
    /\ UNCHANGED <<maxBatch, cache, cur, threads, nops, ret, hist, loaded, lastFetch, uvars>>

\* What a fetch of keys that returned res reported for key k: "err" or "ok";
\* was if k is not among keys. One error stands for every key, no errors
\* for none.
fetchReport(keys, res, k, was) ==
    IF \A p \in 1..Len(keys) : keys[p] # k THEN was
    ELSE LET p == CHOOSE q \in 1..Len(keys) : keys[q] = k
             e == res.error.list
         IN IF Len(e) = 1 THEN (IF e[1] # Nil THEN "err" ELSE "ok")
            ELSE IF p <= Len(e) /\ e[p] # Nil THEN "err"
            ELSE "ok"

\* end, second half: fetch returns, b.data and b.error are set, done is closed.
endDone(bi, res) ==
    /\ batches[bi].fetching > 0
    /\ batches' = [batches EXCEPT ![bi] =
           [@ EXCEPT !.fetching = @ - 1, !.data = res.data, !.error = res.error,
                     !.done = @ + 1]]
    /\ lastFetch' = [k \in Keys |-> fetchReport(batches[bi].arg, res, k, lastFetch[k])]
    /\ UNCHANGED <<maxBatch, cache, cur, threads, nops, ret, hist, loaded, uvars>>

\* Callers issue the single-key operations Load, Prime and Clear.
Next ==
    \/ \E t \in Threads, key \in Keys : Load(t, key)
    \/ \E t \in Threads : Thunk(t)
    \/ \E t \in Threads : ThunkUnsafeSet(t)
    \/ \E key \in Keys, value \in Values, forcePrime \in BOOLEAN : Prime(key, value, forcePrime)
    \/ \E key \in Keys : Clear(key)
    \/ \E bi \in 1..Len(batches) : startTimer(bi)
    \/ \E bi \in 1..Len(batches) : endFetch(bi)
    \/ \E bi \in 1..Len(batches) :
          \E res \in FetchResults(Len(batches[bi].arg)) : endDone(bi, res)

Spec == Init /\ [][Next]_vars

\* Callers issue LoadAll.
NextAll ==
    \/ \E t \in Threads, keys \in SeqsUpTo(Keys, MaxKeysLen) : LoadAll(t, keys)
    \/ \E t \in Threads : LoadAllEnqueue(t)
    \/ \E t \in Threads : Thunk(t)
    \/ \E t \in Threads : ThunkUnsafeSet(t)
    \/ \E bi \in 1..Len(batches) : startTimer(bi)
    \/ \E bi \in 1..Len(batches) : endFetch(bi)
    \/ \E bi \in 1..Len(batches) :
          \E res \in BackendResults(batches[bi].arg) : endDone(bi, res)

SpecAll == Init /\ [][NextAll]_vars

\* ------------------------------------------- the DataLoader, scheduled fairly

\* Keys that the LoadAll calls in progress have yet to hand to LoadThunk.
PendingLoads ==
    LET n(t) == IF threads[t].pc = "enqueue"
                THEN Len(threads[t].keys) - Len(threads[t].thunks) ELSE 0
        sum[S \in SUBSET Threads] ==
            IF S = {} THEN 0
            ELSE LET t == CHOOSE x \in S : TRUE IN n(t) + sum[S \ {t}]
    IN sum[Threads]

\* The run has room for the batches that n more keys can open (each key
\* opens at most one).
LoadRoom(n) == Len(batches) + PendingLoads + n <= MaxBatches

\* The steps of caller t below the call itself: the rest of LoadAll's loop
\* over its keys, and calling the thunks.
LoadStep(t) == LoadAllEnqueue(t) \/ Thunk(t) \/ ThunkUnsafeSet(t)

\* What fetch returns for n keys, by the shape of its error slice: nil,
\* empty, one error for all keys, or one entry per key.
ShapedResults(n) ==
    {res \in FetchResults(n) :
        /\ res.data = [i \in 1..n |-> "a"]
        /\ \A i \in 1..Len(res.error.list) : res.error.list[i] = "E"}

\* The goroutines of batch bi: its timer, and end, whose fetch returns some
\* pair of slices.
BatchRun(bi) ==
    /\ bi \in 1..Len(batches)
    /\ \/ startTimer(bi)
       \/ endFetch(bi)
       \/ \E res \in ShapedResults(Len(batches[bi].arg)) : endDone(bi, res)

\* Load and LoadAll are made while the run has room for their batches.
NextLive ==
    \/ \E t \in Threads, key \in Keys : LoadRoom(1) /\ Load(t, key)
    \/ \E t \in Threads, keys \in SeqsUpTo(Keys, MaxKeysLen) :
          LoadRoom(Len(keys)) /\ LoadAll(t, keys)
    \/ \E t \in Threads : LoadStep(t)
    \/ \E bi \in 1..MaxBatches : BatchRun(bi)

\* Fair scheduling: a goroutine that can take a step takes one; a timer
\* fires after wait; a fetch that was called returns.
FairLive ==
    /\ \A t \in Threads : WF_vars(LoadStep(t))
    /\ \A bi \in 1..MaxBatches : WF_vars(BatchRun(bi))

SpecLive == Init /\ [][NextLive]_vars /\ FairLive

\* --------------------------------------------------- the routing layers

\* Faulty loader(): the initializers are consulted before the loaders.
loaderCase_InitFirst(loaders, initLoaders, x) ==
    IF x \in DOMAIN initLoaders THEN "init"
    ELSE IF x \in DOMAIN loaders THEN "exists"
    ELSE "nil"

\* loader(), the branch taken for x: its loader exists, it is created by the
\* initializer, or there is none.
loaderCase(loaders, initLoaders, x) ==
    IF x \in DOMAIN loaders THEN "exists"
    ELSE IF x \in DOMAIN initLoaders THEN "init"
    ELSE "nil"

\* l.loaders[x] = loader, in the init branch.
loaderSet(loaders, c, x, instance) ==
    IF c = "init" THEN [k \in DOMAIN loaders \cup {x} |-> IF k = x THEN instance ELSE loaders[k]]
    ELSE loaders

\* l.initLoaders[x] = nil, in the init branch.
loaderInitNil(initLoaders, c, x) ==
    IF c = "init" THEN [initLoaders EXCEPT ![x] = "nil"] ELSE initLoaders

\* loaderInit() is called in the init branch.
loaderInitCalls(n, c, x) ==
    IF c = "init" THEN [n EXCEPT ![x] = @ + 1] ELSE n

\* Faulty unlock: the mutex stays locked.
Unlock_Forgotten(m, name) == m

\* l.mu.Unlock()
Unlock(m, name) == [m EXCEPT ![name] = Free]

\* l.mu.Lock() by goroutine g, which waits until the mutex is free.
Lock(g, name) ==
    /\ mu[name] = Free
    /\ mu' = [mu EXCEPT ![name] = g]

\* The critical section of the DataLoader that an operation runs.
FnOf(op) ==
    CASE op \in {"Load", "LoadAll"} -> "LoadThunk"
      [] op \in {"Prime", "ForcePrime"} -> "prime"
      [] op = "Clear" -> "Clear"

\* A call comes in at the ObjAttrDataLoader; l.loader(objectType) is next.
Call(t, op, objectType, attribute, keys, value) ==
    /\ calls[t].pc = "idle"
    /\ ncalls < MaxCalls
    /\ ncalls' = ncalls + 1
    /\ calls' = [calls EXCEPT ![t] =
           [IdleCall EXCEPT !.pc = "objLock", !.op = op, !.objectType = objectType,
                            !.attribute = attribute, !.keys = keys, !.value = value,
                            !.fn = FnOf(op), !.fattr = attribute,
                            !.fkey = IF keys = <<>> THEN 0 ELSE keys[1],
                            !.fval = value, !.fforce = (op = "ForcePrime")]]
    /\ UNCHANGED <<objInitLoaders, objLoaders, attrInitLoaders, attrLoaders, inits, dls, mu>>

\* The call returns to the embedder, which looks at the error of a Load.
Returned(th) == [th EXCEPT !.pc = IF th.op = "Load" THEN "returned" ELSE "idle"]

\* prime() returned b: to the propagator that called it, or to the embedder.
PrimeReturned(th, b) ==
    IF th.inProp
    THEN [th EXCEPT !.inProp = FALSE, !.pi = th.pi + 1, !.pc = "propagate"]
    ELSE [th EXCEPT !.ret = <<b>>, !.pc = "idle"]

\* Clear returned: to the propagator that called it, or to the embedder.
ClearReturned(th) ==
    IF th.inProp
    THEN [th EXCEPT !.inProp = FALSE, !.pi = th.pi + 1, !.pc = "propagate"]
    ELSE Returned(th)

\* No loader for the object type or the attribute: what each operation returns.
NotRegistered(th, err) ==
    CASE th.fn = "LoadThunk" /\ th.op = "Load" ->
             Returned([th EXCEPT !.values = <<Nil>>, !.errors = <<err>>])
      [] th.fn = "LoadThunk" /\ th.op = "LoadAll" ->
             Returned([th EXCEPT !.values = <<>>, !.errors = <<err>>])
      [] th.fn = "prime" -> PrimeReturned(th, FALSE)
      [] th.fn = "Clear" -> ClearReturned(th)

\* ObjAttrDataLoader.loader: l.mu.Lock()
ObjLock(t) ==
    /\ calls[t].pc = "objLock"
    /\ Lock(t, MuObj)
    /\ calls' = [calls EXCEPT ![t].pc = "objLoader"]
    /\ UNCHANGED <<objInitLoaders, objLoaders, attrInitLoaders, attrLoaders, inits, dls, ncalls>>

\* ObjAttrDataLoader.loader, under l.mu, up to the deferred Unlock; then the
\* call goes on into the AttrDataLoader or returns the routing error.
ObjLoader(t) ==
    /\ calls[t].pc = "objLoader"
    /\ LET th == calls[t]
           c == loaderCase(objLoaders, objInitLoaders, th.objectType)
       IN /\ inits' = loaderInitCalls(inits, c, th.objectType)
          /\ objInitLoaders' = loaderInitNil(objInitLoaders, c, th.objectType)
          /\ objLoaders' = loaderSet(objLoaders, c, th.objectType, inits'[th.objectType])
          /\ mu' = Unlock(mu, MuObj)
          /\ calls' = [calls EXCEPT ![t] =
                 IF c = "nil" THEN NotRegistered(th, NewObjTypeNotRegError)
                 ELSE [th EXCEPT !.pc = "attrLock"]]
    /\ UNCHANGED <<attrInitLoaders, attrLoaders, dls, ncalls>>

\* AttrDataLoader.loader: l.mu.Lock()
AttrLock(t) ==
    /\ calls[t].pc = "attrLock"
    /\ Lock(t, MuAttr)
    /\ calls' = [calls EXCEPT ![t].pc = "attrLoader"]
    /\ UNCHANGED <<objInitLoaders, objLoaders, attrInitLoaders, attrLoaders, inits, dls, ncalls>>

\* AttrDataLoader.loader, under l.mu, up to the deferred Unlock; then the
\* call goes on into the DataLoader or returns the routing error. LoadAll of
\* no keys takes no DataLoader mutex.
AttrLoader(t) ==
    /\ calls[t].pc = "attrLoader"
    /\ LET th == calls[t]
           c == loaderCase(attrLoaders, attrInitLoaders, th.fattr)
       IN /\ inits' = loaderInitCalls(inits, c, th.fattr)
          /\ attrInitLoaders' = loaderInitNil(attrInitLoaders, c, th.fattr)
          /\ attrLoaders' = loaderSet(attrLoaders, c, th.fattr, inits'[th.fattr])
          /\ mu' = Unlock(mu, MuAttr)
          /\ calls' = [calls EXCEPT ![t] =
                 IF c = "nil" THEN NotRegistered(th, NewAttrNotRegError)
                 ELSE IF th.fn = "LoadThunk" /\ th.keys = <<>>
                 THEN [th EXCEPT !.pc = "propagate"]
                 ELSE [th EXCEPT !.pc = "dataLock"]]
    /\ UNCHANGED <<objInitLoaders, objLoaders, dls, ncalls>>

\* DataLoader: l.mu.Lock() in LoadThunk, in the thunk, in Prime and in Clear.
DataLock(t) ==
    /\ calls[t].pc = "dataLock"
    /\ Lock(t, MuData(calls[t].fattr))
    /\ calls' = [calls EXCEPT ![t].pc = calls[t].fn]
    /\ UNCHANGED <<objInitLoaders, objLoaders, attrInitLoaders, attrLoaders, inits, dls, ncalls>>

\* The DataLoader d after LoadThunk(key) ran its locked part, on a miss.
LoadThunkMiss(d, key, mb) ==
    LET bi == IF d.batch = NoBatch THEN Len(d.batches) + 1 ELSE d.batch
        b == IF d.batch = NoBatch THEN NewBatch ELSE d.batches[d.batch]
        nb == keyIndexBatch(b, key, mb)
    IN [d EXCEPT !.batches = IF d.batch = NoBatch THEN Append(d.batches, nb)
                             ELSE [d.batches EXCEPT ![bi] = nb],
                 !.batch = IF keyIndexCloses(b, key, mb) THEN NoBatch ELSE bi]

\* The thunk LoadThunk(key) returns on a miss.
LoadThunkMissThunk(d, key) ==
    LET bi == IF d.batch = NoBatch THEN Len(d.batches) + 1 ELSE d.batch
        b == IF d.batch = NoBatch THEN NewBatch ELSE d.batches[d.batch]
    IN MissThunk(key, bi, keyIndexPos(b.keys, key))

\* DataLoader.LoadThunk(key) under l.mu, for the next key of the call.
DataLoadThunk(t) ==
    /\ calls[t].pc = "LoadThunk"
    /\ LET th == calls[t]
           d == dls[th.fattr]
           key == th.keys[Len(th.thunks) + 1]
       IN IF key \in DOMAIN d.cache
          THEN /\ calls' = [calls EXCEPT ![t] =
                      [th EXCEPT !.thunks = Append(th.thunks, HitThunk(key, d.cache[key])),
                                 !.pc = "dataUnlock"]]
               /\ UNCHANGED dls
          ELSE /\ d.batch = NoBatch => Len(d.batches) < MaxBatches
               /\ dls' = [dls EXCEPT ![th.fattr] = LoadThunkMiss(d, key, maxBatch)]
               /\ calls' = [calls EXCEPT ![t] =
                      [th EXCEPT !.thunks = Append(th.thunks, LoadThunkMissThunk(d, key)),
                                 !.pc = "dataUnlock"]]
    /\ UNCHANGED <<objInitLoaders, objLoaders, attrInitLoaders, attrLoaders, inits, mu, ncalls>>

\* DataLoader.LoadThunk: l.mu.Unlock(); LoadAll goes on with its next key,
\* then the thunks are called.
DataUnlock(t) ==
    /\ calls[t].pc = "dataUnlock"
    /\ mu' = Unlock(mu, MuData(calls[t].fattr))
    /\ calls' = [calls EXCEPT ![t].pc =
           IF Len(calls[t].thunks) < Len(calls[t].keys) THEN "dataLock" ELSE "thunk"]
    /\ UNCHANGED <<objInitLoaders, objLoaders, attrInitLoaders, attrLoaders, inits, dls, ncalls>>

\* A thunk returned value and err: the next thunk is called, or the
\* DataLoader call returns to the AttrDataLoader.
Resolved(th, value, err) ==
    [th EXCEPT !.values = Append(th.values, value),
               !.errors = Append(th.errors, err),
               !.fn = "LoadThunk",
               !.pc = IF Len(th.values) + 1 = Len(th.keys) THEN "propagate" ELSE "thunk"]

\* The next thunk is called: it waits for done and reads its slot; with a
\* nil error it goes for l.mu to cache the value.
ThunkCall(t) ==
    /\ calls[t].pc = "thunk"
    /\ LET th == calls[t]
           thunk == th.thunks[Len(th.values) + 1]
       IN IF thunk.hit
          THEN calls' = [calls EXCEPT ![t] = Resolved(th, thunk.val, Nil)]
          ELSE LET b == dls[th.fattr].batches[thunk.batch] IN
               /\ b.done > 0
               /\ calls' = [calls EXCEPT ![t] =
                      IF thunkPanics(b, thunk.pos) THEN [th EXCEPT !.pc = "panic"]
                      ELSE IF thunkCaches(thunkErr(b, thunk.pos))
                      THEN [th EXCEPT !.fn = "unsafeSet", !.fkey = thunk.key,
                                      !.fval = thunkData(b, thunk.pos), !.pc = "dataLock"]
                      ELSE Resolved(th, thunkData(b, thunk.pos), thunkErr(b, thunk.pos))]
    /\ UNCHANGED <<objInitLoaders, objLoaders, attrInitLoaders, attrLoaders, inits, dls, mu, ncalls>>

\* The thunk under l.mu: l.unsafeSet(key, data), Unlock, return.
DataUnsafeSet(t) ==
    /\ calls[t].pc = "unsafeSet"
    /\ LET th == calls[t]
           d == dls[th.fattr]
       IN /\ dls' = [dls EXCEPT ![th.fattr] =
                 [d EXCEPT !.cache = unsafeSet(d.cache, th.fkey, th.fval),
                           !.hist = [d.hist EXCEPT ![th.fkey] = [op |-> "Set", val |-> th.fval]]]]
          /\ mu' = Unlock(mu, MuData(th.fattr))
          /\ calls' = [calls EXCEPT ![t] = Resolved(th, th.fval, Nil)]
    /\ UNCHANGED <<objInitLoaders, objLoaders, attrInitLoaders, attrLoaders, inits, ncalls>>

\* DataLoader prime under l.mu, Unlock, return.
DataPrime(t) ==
    /\ calls[t].pc = "prime"
    /\ LET th == calls[t]
           d == dls[th.fattr]
           stored == primeIt(d.cache, th.fkey, th.fforce)
       IN /\ dls' = [dls EXCEPT ![th.fattr] =
                 IF stored
                 THEN [d EXCEPT !.cache = unsafeSet(d.cache, th.fkey, th.fval),
                                !.hist = [d.hist EXCEPT ![th.fkey] =
                                    [op |-> IF th.inProp THEN "Propagated" ELSE "Prime",
                                     val |-> th.fval]]]
                 ELSE d]
          /\ mu' = Unlock(mu, MuData(th.fattr))
          /\ calls' = [calls EXCEPT ![t] = PrimeReturned(th, stored)]
    /\ UNCHANGED <<objInitLoaders, objLoaders, attrInitLoaders, attrLoaders, inits, ncalls>>

\* DataLoader.Clear under l.mu, Unlock, return.
DataClear(t) ==
    /\ calls[t].pc = "Clear"
    /\ LET th == calls[t]
           d == dls[th.fattr]
       IN /\ dls' = [dls EXCEPT ![th.fattr] =
                 [d EXCEPT !.cache = cacheDelete(d.cache, th.fkey),
                           !.hist = [d.hist EXCEPT ![th.fkey] = [NoWrite EXCEPT !.op = "Clear"]]]]
          /\ mu' = Unlock(mu, MuData(th.fattr))
          /\ calls' = [calls EXCEPT ![t] = ClearReturned(th)]
    /\ UNCHANGED <<objInitLoaders, objLoaders, attrInitLoaders, attrLoaders, inits, ncalls>>

\* Faulty Load: the propagator runs whatever the error.
LoadPropagates_Always(err) == TRUE

\* AttrDataLoader.Load runs the propagator of the attribute.
LoadPropagates(err) == err = Nil

\* What AttrDataLoader hands to RunPropagator in its invocation number pi
\* (from 0): Load the loaded value, LoadAll the range variable of
\* "for val := range values", which is the index.
PropagatorArg(th) == IF th.op = "Load" THEN th.values[1] ELSE IntValue(th.pi)

\* AttrDataLoader.Load and LoadAll have one more RunPropagator to do.
PropagatorDue(th) ==
    IF th.op = "Load" THEN th.pi = 0 /\ LoadPropagates(th.errors[1])
    ELSE th.pi < Len(th.values)

\* AttrDataLoader.Load and LoadAll after the DataLoader returned: one call of
\* RunPropagator, or the return to the caller. The propagator, handed a
\* loaded account, calls back into the AttrDataLoader: fn ("prime" or
\* "Clear") on attribute attr under the account's key, with forcePrime force;
\* it leaves anything else alone.
RunPropagatorInto(t, fn, attr, force) ==
    /\ calls[t].pc = "propagate"
    /\ LET th == calls[t] IN
       calls' = [calls EXCEPT ![t] =
           IF ~PropagatorDue(th) THEN Returned(th)
           ELSE IF th.attribute \notin Propagators THEN [th EXCEPT !.pi = th.pi + 1]
           ELSE IF PropagatorArg(th) \in Values
           THEN [th EXCEPT !.props = Append(th.props, PropagatorArg(th)),
                           !.fn = fn, !.fattr = attr,
                           !.fkey = EmailOf(PropagatorArg(th)),
                           !.fval = PropagatorArg(th), !.fforce = force,
                           !.inProp = TRUE, !.pc = "attrLock"]
           ELSE [th EXCEPT !.props = Append(th.props, PropagatorArg(th)),
                           !.pi = th.pi + 1]]
    /\ UNCHANGED <<objInitLoaders, objLoaders, attrInitLoaders, attrLoaders, inits, dls, mu, ncalls>>

\* The propagator of "id" as the README has it: it primes "email".
RunPropagator(t) == RunPropagatorInto(t, "prime", "email", FALSE)

\* IsLoadingError(err)
IsLoadingError(err) ==
    IF err # Nil
    THEN CASE err = NewObjTypeNotRegError -> FALSE
           [] err = NewAttrNotRegError -> FALSE
           [] OTHER -> TRUE
    ELSE TRUE

\* The embedder asks IsLoadingError about the error Load returned.
IsLoadingErrorCall(t) ==
    /\ calls[t].pc = "returned"
    /\ calls' = [calls EXCEPT ![t] =
           [calls[t] EXCEPT !.isLoading = <<IsLoadingError(calls[t].errors[1])>>,
                            !.pc = "idle"]]
    /\ UNCHANGED <<objInitLoaders, objLoaders, attrInitLoaders, attrLoaders, inits, dls, mu, ncalls>>

\* startTimer of batch bi of the loader of attribute a: the sleep is over,
\* l.mu.Lock().
TimerLock(a, bi) ==
    /\ dls[a].batches[bi].timer = "sleeping"
    /\ Lock(TimerOf(bi), MuData(a))
    /\ dls' = [dls EXCEPT ![a].batches[bi].timer = "locked"]
    /\ UNCHANGED <<objInitLoaders, objLoaders, attrInitLoaders, attrLoaders, inits, calls, ncalls>>

\* startTimer under l.mu: a closing batch is left alone, another is detached;
\* Unlock; b.end is next.
TimerFire(a, bi) ==
    /\ dls[a].batches[bi].timer = "locked"
    /\ LET d == dls[a] IN
       dls' = [dls EXCEPT ![a] =
           [d EXCEPT !.batches[bi] = timerBatch(d.batches[bi]),
                     !.batch = timerDetached(d.batches[bi], d.batch)]]
    /\ mu' = Unlock(mu, MuData(a))
    /\ UNCHANGED <<objInitLoaders, objLoaders, attrInitLoaders, attrLoaders, inits, calls, ncalls>>

\* b.end of batch bi of the loader of attribute a: l.fetch(b.keys) is called.
EndFetch(a, bi) ==
    /\ dls[a].batches[bi].ending > 0
    /\ dls' = [dls EXCEPT ![a].batches[bi] =
           [@ EXCEPT !.ending = @ - 1, !.fetching = @ + 1, !.fetched = @ + 1,
                     !.arg = dls[a].batches[bi].keys]]
    /\ UNCHANGED <<objInitLoaders, objLoaders, attrInitLoaders, attrLoaders, inits, mu, calls, ncalls>>

\* b.end: fetch returns, b.data and b.error are set, done is closed.
EndDone(a, bi, res) ==
    /\ dls[a].batches[bi].fetching > 0
    /\ dls' = [dls EXCEPT ![a].batches[bi] =
           [@ EXCEPT !.fetching = @ - 1, !.data = res.data, !.error = res.error,
                     !.done = @ + 1]]
    /\ UNCHANGED <<objInitLoaders, objLoaders, attrInitLoaders, attrLoaders, inits, mu, calls, ncalls>>

\* The variables of the single DataLoader, which the routing layers leave alone.
dvars == <<maxBatch, cache, cur, batches, threads, nops, ret, hist, loaded, lastFetch>>

\* The calls the embedder makes: every operation on every route, a route
\* being an object type and an attribute; LoadAll with no key or with every
\* key; Prime, ForcePrime and Clear on the key under which the propagator
\* primes the value "a", Prime and ForcePrime with another value.
Routes == (RegObjectTypes \X Attributes) \cup ((ObjectTypes \ RegObjectTypes) \X {"id"})
AllKeys == [i \in 1..NumKeys |-> i]
PrimedKey == EmailOf("a")
PrimedValue == "b"

\* What fetch returns for keys: every value, and per key an error or none.
RoutingResults(keys) ==
    {[data |-> [i \in 1..Len(keys) |-> BackendValue(keys[i])], error |-> e] :
        e \in {NilErrSlice}
              \cup {ErrSlice(FALSE, l) : l \in [1..Len(keys) -> Errs \cup {Nil}] \ {[i \in 1..Len(keys) |-> Nil]}}}

\* Callers go through the ObjAttrDataLoader.
NextRouting ==
    \/ \E t \in Threads, r \in Routes, key \in Keys :
          Call(t, "Load", r[1], r[2], <<key>>, Nil) /\ UNCHANGED dvars
    \/ \E t \in Threads, r \in Routes, keys \in {<<>>, AllKeys} :
          Call(t, "LoadAll", r[1], r[2], keys, Nil) /\ UNCHANGED dvars
    \/ \E t \in Threads, r \in Routes, op \in {"Prime", "ForcePrime"} :
          Call(t, op, r[1], r[2], <<PrimedKey>>, PrimedValue) /\ UNCHANGED dvars
    \/ \E t \in Threads, r \in Routes :
          Call(t, "Clear", r[1], r[2], <<PrimedKey>>, Nil) /\ UNCHANGED dvars
    \/ \E t \in Threads : ObjLock(t) /\ UNCHANGED dvars
    \/ \E t \in Threads : ObjLoader(t) /\ UNCHANGED dvars
    \/ \E t \in Threads : AttrLock(t) /\ UNCHANGED dvars
    \/ \E t \in Threads : AttrLoader(t) /\ UNCHANGED dvars
    \/ \E t \in Threads : DataLock(t) /\ UNCHANGED dvars
    \/ \E t \in Threads : DataLoadThunk(t) /\ UNCHANGED dvars
    \/ \E t \in Threads : DataUnlock(t) /\ UNCHANGED dvars
    \/ \E t \in Threads : ThunkCall(t) /\ UNCHANGED dvars
    \/ \E t \in Threads : DataUnsafeSet(t) /\ UNCHANGED dvars
    \/ \E t \in Threads : DataPrime(t) /\ UNCHANGED dvars
    \/ \E t \in Threads : DataClear(t) /\ UNCHANGED dvars
    \/ \E t \in Threads : RunPropagator(t) /\ UNCHANGED dvars
    \/ \E t \in Threads : IsLoadingErrorCall(t) /\ UNCHANGED dvars
    \/ \E a \in RegAttributes : \E bi \in 1..Len(dls[a].batches) :
          TimerLock(a, bi) /\ UNCHANGED dvars
    \/ \E a \in RegAttributes : \E bi \in 1..Len(dls[a].batches) :
          TimerFire(a, bi) /\ UNCHANGED dvars
    \/ \E a \in RegAttributes : \E bi \in 1..Len(dls[a].batches) :
          EndFetch(a, bi) /\ UNCHANGED dvars
    \/ \E a \in RegAttributes : \E bi \in 1..Len(dls[a].batches) :
          \E res \in RoutingResults(dls[a].batches[bi].arg) :
              EndDone(a, bi, res) /\ UNCHANGED dvars

\* The attribute initializers construct their DataLoader with no batch limit
\* or with the limit 1.
InitSpecRouting == Init /\ maxBatch <= MaxRoutingMaxBatch

SpecRouting == InitSpecRouting /\ [][NextRouting]_vars

\* ------------------------------------ propagators that re-enter the loader

\* Keys of attribute a that the unfinished Load and LoadAll calls have yet
\* to hand to LoadThunk.
PendingKeys(a) ==
    LET n(t) == IF calls[t].op \in {"Load", "LoadAll"} /\ calls[t].attribute = a
                   /\ calls[t].pc \notin {"idle", "returned", "panic"}
                THEN Len(calls[t].keys) - Len(calls[t].thunks) ELSE 0
        sum[S \in SUBSET Threads] ==
            IF S = {} THEN 0
            ELSE LET t == CHOOSE x \in S : TRUE IN n(t) + sum[S \ {t}]
    IN sum[Threads]

\* The run has room for the batches that n more keys of attribute a can open
\* (each key opens at most one).
BatchRoom(a, n) ==
    a \in RegAttributes => Len(dls[a].batches) + PendingKeys(a) + n <= MaxBatches

\* The steps of caller t below the call itself, the propagator being one
\* that calls Prime, ForcePrime or Clear on any registered attribute.
CallerStep(t) ==
    \/ ObjLock(t) \/ ObjLoader(t) \/ AttrLock(t) \/ AttrLoader(t)
    \/ DataLock(t) \/ DataLoadThunk(t) \/ DataUnlock(t) \/ ThunkCall(t)
    \/ DataUnsafeSet(t) \/ DataPrime(t) \/ DataClear(t)
    \/ \E a \in RegAttributes :
          \/ \E force \in BOOLEAN : RunPropagatorInto(t, "prime", a, force)
          \/ RunPropagatorInto(t, "Clear", a, FALSE)
    \/ IsLoadingErrorCall(t)

\* The steps of the goroutines of batch bi of the loader of attribute a.
BatchStep(a, bi) ==
    /\ bi \in 1..Len(dls[a].batches)
    /\ \/ TimerLock(a, bi)
       \/ TimerFire(a, bi)
       \/ EndFetch(a, bi)
       \/ \E res \in RoutingResults(dls[a].batches[bi].arg) : EndDone(a, bi, res)

\* Callers use the registered object type; Load and LoadAll go to the
\* attribute that has a propagator and are made while the run has room for
\* their batches.
NextReentrant ==
    \/ \E t \in Threads, a \in Propagators, key \in Keys :
          BatchRoom(a, 1) /\ Call(t, "Load", "account", a, <<key>>, Nil) /\ UNCHANGED dvars
    \/ \E t \in Threads, a \in Propagators :
          BatchRoom(a, Len(AllKeys)) /\ Call(t, "LoadAll", "account", a, AllKeys, Nil)
              /\ UNCHANGED dvars
    \/ \E t \in Threads, a \in RegAttributes, op \in {"Prime", "ForcePrime", "Clear"} :
          Call(t, op, "account", a, <<PrimedKey>>, PrimedValue) /\ UNCHANGED dvars
    \/ \E t \in Threads : CallerStep(t) /\ UNCHANGED dvars
    \/ \E a \in RegAttributes : \E bi \in 1..MaxBatches : BatchStep(a, bi) /\ UNCHANGED dvars

\* Fair scheduling: a goroutine that can take a step takes one, and a fetch
\* that was called returns.
FairReentrant ==
    /\ \A t \in Threads : WF_vars(CallerStep(t) /\ UNCHANGED dvars)
    /\ \A a \in RegAttributes : \A bi \in 1..MaxBatches :
           WF_vars(BatchStep(a, bi) /\ UNCHANGED dvars)

SpecReentrant == InitSpecRouting /\ [][NextReentrant]_vars /\ FairReentrant

\* ------------------------------------------------- notions the claims use

\* The step in which the thunk that thread t called returns.
ThunkReturns(t) ==
    /\ Thunk(t) \/ ThunkUnsafeSet(t)
    /\ Len(threads'[t].values) = Len(threads[t].values) + 1

\* Thread t runs LoadThunk in this step.
LoadThunkStep(t) ==
    \/ \E key \in Keys : Load(t, key)
    \/ \E keys \in SeqsUpTo(Keys, MaxKeysLen) : keys # <<>> /\ LoadAll(t, keys)
    \/ LoadAllEnqueue(t)

\* Thunk the LoadThunk step of thread t has just returned, and its key.
NewThunk(t) == threads'[t].thunks[Len(threads'[t].thunks)]
NextKey(t) == threads'[t].keys[Len(threads'[t].thunks)]

\* Thunk thread t calls next.
CurThunk(t) == threads[t].thunks[Len(threads[t].values) + 1]

\* Thread t has been released from its wait on done for its j-th thunk.
ReleasedAt(t, j) ==
    \/ j <= Len(threads[t].values)
    \/ threads[t].pc = "panic" /\ j = Len(threads[t].values) + 1

\* Some waiter of batch bi has been released.
Released(bi) ==
    \E t \in Threads : \E j \in 1..Len(threads[t].thunks) :
        /\ ~threads[t].thunks[j].hit
        /\ threads[t].thunks[j].batch = bi
        /\ ReleasedAt(t, j)

Distinct(keys) == \A i, j \in 1..Len(keys) : i # j => keys[i] # keys[j]

\* Slot of key in the key list fetch was called with (1-based).
SlotOf(b, key) == CHOOSE p \in 1..Len(b.arg) : b.arg[p] = key

\* The value and error the documentation assigns to a slot of a fetch result.
DocValue(b, p) == IF p <= Len(b.data) THEN b.data[p] ELSE Nil
DocError(b, p) ==
    IF Len(b.error.list) = 1 THEN b.error.list[1]
    ELSE IF Len(b.error.list) = 0 THEN Nil
    ELSE b.error.list[p]

\* C1: every batch is fetched at most once, with its own keys, and its done
\* signal fires at most once, whichever of the timer and the size cap closes
\* it; once a waiter of the batch is released, fetch has run exactly once
\* and has returned.
C1_FinalizedOnce ==
    \A bi \in 1..Len(batches) :
        LET b == batches[bi] IN
        /\ b.fetched <= 1
        /\ b.done <= 1
        /\ b.ending + b.fetched <= 1
        /\ b.fetching <= b.fetched
        /\ b.fetched = 1 => b.arg = b.keys
        /\ Released(bi) => b.fetched = 1 /\ b.fetching = 0 /\ b.done = 1

\* The size cap closed a batch, its timer woke up later and did nothing, and
\* a waiter of the batch was released.
C1_Witness ==
    \E bi \in 1..Len(batches) :
        /\ batches[bi].closing
        /\ batches[bi].timer = "exited"
        /\ batches[bi].fetched = 1
        /\ Released(bi)

\* C2: the keys of a batch, and of every fetch call, are pairwise distinct;
\* all callers that loaded the same key through the same batch hold the same
\* position, and those that returned got the same value and error, the ones
\* at the key's slot of the fetch result.
C2_Dedup ==
    /\ \A bi \in 1..Len(batches) :
           Distinct(batches[bi].keys) /\ Distinct(batches[bi].arg)
    /\ \A t1, t2 \in Threads :
       \A j1 \in 1..Len(threads[t1].thunks), j2 \in 1..Len(threads[t2].thunks) :
           LET k1 == threads[t1].thunks[j1]
               k2 == threads[t2].thunks[j2]
               b == batches[k1.batch]
           IN (~k1.hit /\ ~k2.hit /\ k1.batch = k2.batch /\ k1.key = k2.key) =>
                  /\ k1.pos = k2.pos
                  /\ b.keys[k1.pos + 1] = k1.key
                  /\ j1 <= Len(threads[t1].values) =>
                         /\ b.fetched = 1
                         /\ threads[t1].values[j1] = DocValue(b, SlotOf(b, k1.key))
                         /\ threads[t1].errors[j1] = DocError(b, SlotOf(b, k1.key))
                         /\ ~(threads[t2].pc = "panic" /\ j2 = Len(threads[t2].values) + 1)
                  /\ (j1 <= Len(threads[t1].values) /\ j2 <= Len(threads[t2].values)) =>
                         /\ threads[t1].values[j1] = threads[t2].values[j2]
                         /\ threads[t1].errors[j1] = threads[t2].errors[j2]

\* Two callers loaded the same key through the same batch and both returned.
C2_Witness ==
    \E t1, t2 \in Threads :
        /\ t1 # t2
        /\ threads[t1].op = "Load" /\ threads[t2].op = "Load"
        /\ threads[t1].pc = "idle" /\ threads[t2].pc = "idle"
        /\ ~threads[t1].thunks[1].hit /\ ~threads[t2].thunks[1].hit
        /\ threads[t1].thunks[1].batch = threads[t2].thunks[1].batch
        /\ threads[t1].keys = threads[t2].keys
        /\ threads[t1].errors = <<Nil>>
        /\ Len(batches[threads[t1].thunks[1].batch].keys) = 1

\* C3: with maxBatch > 0 no batch and no fetch call holds more than maxBatch
\* keys; a batch that holds maxBatch keys is closing, detached from the
\* loader and already handed to end, and the open batch has room left. With
\* maxBatch = 0 no batch is ever closed by its size: only the timer sends it.
C3_MaxBatch ==
    /\ \A bi \in 1..Len(batches) :
           LET b == batches[bi] IN
           /\ maxBatch > 0 =>
                  /\ Len(b.keys) <= maxBatch
                  /\ Len(b.arg) <= maxBatch
                  /\ b.closing <=> Len(b.keys) = maxBatch
                  /\ b.closing => cur # bi /\ b.ending + b.fetched = 1
           /\ maxBatch = 0 =>
                  /\ ~b.closing
                  /\ b.ending + b.fetched > 0 => b.timer = "exited"
    /\ cur # NoBatch =>
           /\ ~batches[cur].closing
           /\ batches[cur].ending + batches[cur].fetched = 0

\* A batch of maxBatch = 2 keys was fetched while its timer still sleeps, and
\* a later key went into a second batch.
C3_Witness ==
    /\ maxBatch = 2
    /\ Len(batches) = 2
    /\ Len(batches[1].keys) = 2
    /\ batches[1].timer = "sleeping"
    /\ batches[1].fetched = 1
    /\ Len(batches[2].keys) = 1

\* C4: when LoadAll(keys) has returned, values and errors have len(keys)
\* elements, and element i is the result for keys[i]: the backend's value of
\* keys[i], with a nil error for a cached key and otherwise the error the
\* fetch of its batch reported for keys[i].
C4_LoadAllPositional ==
    \A t \in Threads :
        LET th == threads[t] IN
        (th.pc = "idle" /\ th.op = "LoadAll") =>
            /\ Len(th.values) = Len(th.keys)
            /\ Len(th.errors) = Len(th.keys)
            /\ \A i \in 1..Len(th.keys) :
                   /\ th.values[i] = BackendValue(th.keys[i])
                   /\ th.thunks[i].hit => th.errors[i] = Nil
                   /\ ~th.thunks[i].hit =>
                          LET b == batches[th.thunks[i].batch] IN
                          /\ th.keys[i] \in {b.arg[p] : p \in 1..Len(b.arg)}
                          /\ th.errors[i] = DocError(b, SlotOf(b, th.keys[i]))

\* A LoadAll of two keys returned that was split over two batches, with an
\* error for its first key only, while another caller waited in its batch.
C4_Witness ==
    \E t, u \in Threads :
        /\ t # u
        /\ threads[t].pc = "idle" /\ threads[t].op = "LoadAll"
        /\ Len(threads[t].keys) = 2
        /\ ~threads[t].thunks[1].hit /\ ~threads[t].thunks[2].hit
        /\ threads[t].thunks[1].batch # threads[t].thunks[2].batch
        /\ threads[t].errors = <<"E", Nil>>
        /\ \E j \in 1..Len(threads[u].thunks) :
               /\ ~threads[u].thunks[j].hit
               /\ threads[u].thunks[j].batch = threads[t].thunks[2].batch
               /\ threads[u].thunks[j].pos = threads[t].thunks[2].pos

\* C5 (as stated): once a load of K has succeeded and no Clear(K) followed,
\* a LoadThunk(K) is served from the cache with that same value and enqueues
\* nothing.
C5_SameValueUntilClear ==
    [][\A t \in Threads :
          (LoadThunkStep(t) /\ loaded[NextKey(t)] # NotLoaded) =>
              /\ NewThunk(t).hit
              /\ NewThunk(t).val = loaded[NextKey(t)]
              /\ UNCHANGED <<cur, batches>>]_vars

\* C5 (amended): once a load of K has succeeded and no Clear(K) followed, a
\* LoadThunk(K) is served from the cache and enqueues nothing; it returns the
\* loaded value when that load's write is the last write to K's cache slot
\* (no storing Prime and no later resolution for K came after it).
C5_CachedUntilClear ==
    [][\A t \in Threads :
          LoadThunkStep(t) =>
              /\ loaded[NextKey(t)] # NotLoaded =>
                     NewThunk(t).hit /\ UNCHANGED <<cur, batches>>
              /\ hist[NextKey(t)].op = "Set" =>
                     /\ NewThunk(t).hit
                     /\ NewThunk(t).val = hist[NextKey(t)].val
                     /\ UNCHANGED <<cur, batches>>]_vars

\* A Load was served from the cache with the value an earlier load stored,
\* while another batch is in flight.
C5_Witness ==
    \E t \in Threads :
        /\ threads[t].pc = "idle" /\ threads[t].op = "Load"
        /\ threads[t].thunks[1].hit
        /\ hist[threads[t].keys[1]].op = "Set"
        /\ threads[t].values = <<loaded[threads[t].keys[1]]>>
        /\ \E bi \in 1..Len(batches) : batches[bi].fetching = 1

\* C6: a thunk that resolves with a non-nil error leaves the cache as it is,
\* and a LoadThunk of a key that is not cached enqueues the key into a batch
\* that has not been handed to fetch yet, so the key is fetched again.
C6_ErrorsNotCached ==
    [][\A t \in Threads :
          /\ (/\ ThunkReturns(t)
              /\ ~CurThunk(t).hit
              /\ threads'[t].errors[Len(threads'[t].errors)] # Nil) =>
                 (Thunk(t) /\ cache' = cache)
          /\ (LoadThunkStep(t) /\ NextKey(t) \notin DOMAIN cache) =>
                 /\ ~NewThunk(t).hit
                 /\ NewThunk(t).batch \in 1..Len(batches')
                 /\ batches'[NewThunk(t).batch].keys[NewThunk(t).pos + 1] = NextKey(t)
                 /\ batches'[NewThunk(t).batch].ending
                      + batches'[NewThunk(t).batch].fetched <= 1
                 /\ batches'[NewThunk(t).batch].fetched = 0
                 /\ batches'[NewThunk(t).batch].done = 0]_vars

\* A Load of K returned an error, K is not cached, and a later Load of K sits
\* in a second batch that was fetched with K.
C6_Witness ==
    \E t, u \in Threads :
        /\ t # u
        /\ threads[t].pc = "idle" /\ threads[t].op = "Load"
        /\ ~threads[t].thunks[1].hit
        /\ threads[t].errors = <<"E">>
        /\ threads[t].keys[1] \notin DOMAIN cache
        /\ threads[u].op = "Load" /\ threads[u].keys = threads[t].keys
        /\ Len(threads[u].thunks) = 1
        /\ ~threads[u].thunks[1].hit
        /\ threads[u].thunks[1].batch > threads[t].thunks[1].batch
        /\ batches[threads[u].thunks[1].batch].fetched = 1

\* C7: a waiter at a slot of a completed batch observes the value of the
\* slot (or the zero value) and the documented error: the shared one, the
\* slot's own, or nil when fetch returned no errors -- it always returns.
C7_ObservedError ==
    \A t \in Threads : \A j \in 1..Len(threads[t].thunks) :
        LET k == threads[t].thunks[j]
            b == batches[k.batch]
        IN ~k.hit =>
               /\ j <= Len(threads[t].values) =>
                      /\ threads[t].values[j] = DocValue(b, k.pos + 1)
                      /\ threads[t].errors[j] = DocError(b, k.pos + 1)
               /\ ~(threads[t].pc = "panic" /\ j = Len(threads[t].values) + 1
                    /\ Len(b.error.list) \in {0, 1, Len(b.keys)})

\* C8: Prime stores the value and returns true when forced or when the key
\* is absent, and otherwise changes nothing and returns false (a value an
\* earlier Prime stored stays); other cache entries, the batches and the
\* callers are left alone, so no fetch is started.
C8_Prime ==
    [][\A key \in Keys, value \in Values, forcePrime \in BOOLEAN :
          Prime(key, value, forcePrime) =>
              /\ IF forcePrime \/ key \notin DOMAIN cache
                 THEN key \in DOMAIN cache' /\ cache'[key] = value /\ ret' = <<TRUE>>
                 ELSE cache' = cache /\ ret' = <<FALSE>>
              /\ (hist[key].op = "Prime" /\ ~forcePrime) =>
                     cache'[key] = hist[key].val /\ ret' = <<FALSE>>
              /\ \A k \in Keys \ {key} :
                     /\ k \in DOMAIN cache' <=> k \in DOMAIN cache
                     /\ k \in DOMAIN cache => cache'[k] = cache[k]
              /\ UNCHANGED <<cur, batches, threads>>]_vars

\* Two calls of Prime were made and nothing else; the second one found the
\* key primed and returned false.
C8_Witness ==
    /\ nops = 2
    /\ ret = <<FALSE>>
    /\ \A t \in Threads : threads[t].op = "none"
    /\ \E key \in Keys : hist[key].op = "Prime" /\ cache[key] = hist[key].val

\* C9: when the last write to K's cache slot is a forced Prime(K, V), a
\* LoadThunk(K) returns a thunk holding V without touching any batch, and
\* calling that thunk returns (V, nil) without touching cache or batches.
C9_PrimeThenLoad ==
    [][\A t \in Threads :
          /\ (/\ LoadThunkStep(t)
              /\ hist[NextKey(t)].op = "Prime"
              /\ hist[NextKey(t)].force) =>
                 /\ NewThunk(t) = HitThunk(NextKey(t), hist[NextKey(t)].val)
                 /\ UNCHANGED <<cur, batches, cache>>
          /\ (Thunk(t) /\ CurThunk(t).hit) =>
                 /\ threads'[t].values = Append(threads[t].values, CurThunk(t).val)
                 /\ threads'[t].errors = Append(threads[t].errors, Nil)
                 /\ UNCHANGED <<cur, batches, cache>>]_vars

\* A Load returned the force-primed value while a batch holding the same key
\* was still waiting for its fetch.
C9_Witness ==
    \E t \in Threads :
        /\ threads[t].pc = "idle" /\ threads[t].op = "Load"
        /\ threads[t].thunks[1].hit
        /\ hist[threads[t].keys[1]].op = "Prime"
        /\ hist[threads[t].keys[1]].force
        /\ threads[t].values = <<hist[threads[t].keys[1]].val>>
        /\ threads[t].errors = <<Nil>>
        /\ \E bi \in 1..Len(batches) :
               /\ batches[bi].done = 0
               /\ threads[t].keys[1] \in {batches[bi].keys[i] : i \in 1..Len(batches[bi].keys)}

\* C10: when the last write to K's cache slot is a Clear(K), a LoadThunk(K)
\* misses the cache and enqueues K into a batch not yet handed to fetch; and
\* a thunk of a miss returns only after fetch was called for its batch with
\* a key list that holds the key at the thunk's position.
C10_ClearThenLoad ==
    [][\A t \in Threads :
          /\ (LoadThunkStep(t) /\ hist[NextKey(t)].op = "Clear") =>
                 /\ ~NewThunk(t).hit
                 /\ NewThunk(t).batch \in 1..Len(batches')
                 /\ batches'[NewThunk(t).batch].keys[NewThunk(t).pos + 1] = NextKey(t)
                 /\ batches'[NewThunk(t).batch].fetched = 0
          /\ (Thunk(t) /\ ~CurThunk(t).hit) =>
                 /\ batches[CurThunk(t).batch].fetched = 1
                 /\ batches[CurThunk(t).batch].fetching = 0
                 /\ CurThunk(t).pos < Len(batches[CurThunk(t).batch].arg)
                 /\ batches[CurThunk(t).batch].arg[CurThunk(t).pos + 1] = CurThunk(t).key]_vars

\* A key was primed and cleared, and the Load of it that followed waits on a
\* batch that was fetched with the key.
C10_Witness ==
    \E t \in Threads :
        /\ nops = 3
        /\ ret = <<TRUE>>
        /\ cache = <<>>
        /\ threads[t].pc = "resolve"
        /\ ~threads[t].thunks[1].hit
        /\ hist[threads[t].keys[1]].op = "Clear"
        /\ batches[threads[t].thunks[1].batch].done = 1
        /\ batches[threads[t].thunks[1].batch].arg = threads[t].keys

\* --------------------------------------- notions of the routing layers

\* Caller t got past both loader() lookups: its call reached a DataLoader.
Routed(t) == calls[t].objectType \in RegObjectTypes /\ calls[t].attribute \in RegAttributes

\* The call of caller t has returned to the embedder.
HasReturned(t) == calls[t].op # "none" /\ calls[t].pc \in {"returned", "idle"}

\* C11: the initializer of every object type and of every attribute is
\* called at most once, whatever calls run concurrently; a loader that is
\* in the loaders map is the one instance its initializer returned, so every
\* call is routed to the same instance, and its initLoaders slot holds nil.
C11_InitOnce ==
    /\ \A x \in DOMAIN inits : inits[x] <= 1
    /\ \A o \in DOMAIN objLoaders :
           objInitLoaders[o] = "nil" /\ inits[o] = 1 /\ objLoaders[o] = 1
    /\ \A a \in DOMAIN attrLoaders :
           attrInitLoaders[a] = "nil" /\ inits[a] = 1 /\ attrLoaders[a] = 1

\* Two callers went through loader("account") and loader("id") at the same
\* time and both reached the DataLoader of "id".
C11_Witness ==
    /\ \A t \in Threads :
           /\ calls[t].objectType = "account" /\ calls[t].attribute = "id"
           /\ calls[t].pc \in {"dataLock", "LoadThunk", "prime", "Clear", "dataUnlock"}
    /\ inits["account"] = 1
    /\ inits["id"] = 1
    /\ "id" \in DOMAIN attrLoaders

\* What a call that found no loader returns, the routing error being err.
FailedWith(th, err) ==
    CASE th.op = "Load" -> th.values = <<Nil>> /\ th.errors = <<err>>
      [] th.op = "LoadAll" -> th.values = <<>> /\ th.errors = <<err>>
      [] th.op \in {"Prime", "ForcePrime"} -> th.ret = <<FALSE>>
      [] th.op = "Clear" -> th.ret = <<>> /\ th.values = <<>> /\ th.errors = <<>>

\* C12: a call for an object type that is not registered changes nothing in
\* either routing layer or in any DataLoader, runs no propagator, and
\* returns an ObjTypeNotRegError (Load, LoadAll), false (Prime, ForcePrime)
\* or nothing (Clear); a call for a registered object type and an attribute
\* that is not registered creates no DataLoader, changes no DataLoader, runs
\* no propagator, and returns an AttrNotRegError, false or nothing.
C12_RoutingFailures ==
    [][\A t \in Threads :
          calls'[t] # calls[t] =>
              LET th == calls'[t] IN
              /\ th.objectType \notin RegObjectTypes =>
                     /\ UNCHANGED <<objInitLoaders, objLoaders, attrInitLoaders,
                                    attrLoaders, inits, dls>>
                     /\ th.props = <<>>
                     /\ th.thunks = <<>>
                     /\ th.pc \in {"returned", "idle"} => FailedWith(th, "ObjTypeNotRegError")
              /\ (th.objectType \in RegObjectTypes /\ th.attribute \notin RegAttributes) =>
                     /\ UNCHANGED <<attrInitLoaders, attrLoaders, dls>>
                     /\ \A a \in RegAttributes : inits'[a] = inits[a]
                     /\ th.props = <<>>
                     /\ th.thunks = <<>>
                     /\ th.pc \in {"returned", "idle"} => FailedWith(th, "AttrNotRegError")]_vars

\* One caller got an ObjTypeNotRegError from Load on the object type "ghost",
\* the other got false from Prime on the attribute "none" of "account".
C12_Witness ==
    \E t1, t2 \in Threads :
        /\ calls[t1].op = "Load" /\ calls[t1].objectType = "ghost"
        /\ calls[t1].pc = "idle" /\ calls[t1].errors = <<"ObjTypeNotRegError">>
        /\ calls[t2].op = "Prime" /\ calls[t2].objectType = "account"
        /\ calls[t2].attribute = "none"
        /\ calls[t2].pc = "idle" /\ calls[t2].ret = <<FALSE>>

\* C13: whenever the embedder has asked IsLoadingError about the error a
\* Load returned, the answer is true exactly if the error is not nil and is
\* neither of the two routing errors.
C13_IsLoadingError ==
    \A t \in Threads :
        calls[t].isLoading # <<>> =>
            calls[t].isLoading =
                <<calls[t].errors[1] # Nil
                  /\ calls[t].errors[1] \notin {"ObjTypeNotRegError", "AttrNotRegError"}>>

\* C14: when AttrDataLoader.Load of an attribute with a propagator has
\* returned, the propagator has run exactly once, with the loaded value, if
\* the error is nil, and has not run if the load failed. The Prime the
\* propagator makes on a sibling attribute stores the value if the key has
\* no entry; as long as that is the last write to the key's slot, LoadThunk
\* of the sibling returns a thunk that holds the value and touches no batch
\* (nothing is fetched), and the Load returns the value with a nil error.
C14_Propagator ==
    /\ [](\A t \in Threads :
             (HasReturned(t) /\ Routed(t) /\ calls[t].op = "Load") =>
                 /\ calls[t].props =
                        IF calls[t].attribute \in Propagators /\ calls[t].errors[1] = Nil
                        THEN <<calls[t].values[1]>> ELSE <<>>
                 /\ ~calls[t].inProp
                 /\ calls[t].thunks[1].hit =>
                        calls[t].values = <<calls[t].thunks[1].val>> /\ calls[t].errors = <<Nil>>)
    /\ [][\A t \in Threads :
             /\ (DataPrime(t) /\ calls[t].inProp
                    /\ calls[t].fkey \notin DOMAIN dls[calls[t].fattr].cache) =>
                    /\ calls[t].fkey \in DOMAIN dls'[calls[t].fattr].cache
                    /\ dls'[calls[t].fattr].cache[calls[t].fkey] = calls[t].props[1]
                    /\ calls'[t].pc = "propagate"
             /\ DataLoadThunk(t) =>
                    LET th == calls[t]
                        key == th.keys[Len(th.thunks) + 1]
                        w == dls[th.fattr].hist[key]
                    IN w.op = "Propagated" =>
                           /\ calls'[t].thunks[Len(th.thunks) + 1] = HitThunk(key, w.val)
                           /\ dls' = dls]_vars

\* Load("account", "id", 1) returned the value "a" after its propagator had
\* primed "email"; the other caller's Load("account", "email", 1) then
\* returned "a" with a nil error, and the loader of "email" never had a batch.
C14_Witness ==
    \E t1, t2 \in Threads :
        /\ calls[t1].op = "Load" /\ calls[t1].attribute = "id" /\ calls[t1].keys = <<1>>
        /\ calls[t1].pc = "idle" /\ calls[t1].props = <<"a">>
        /\ calls[t2].op = "Load" /\ calls[t2].attribute = "email" /\ calls[t2].keys = <<1>>
        /\ calls[t2].pc = "idle" /\ calls[t2].values = <<"a">> /\ calls[t2].errors = <<Nil>>
        /\ calls[t2].thunks[1].hit
        /\ dls["email"].hist[1] = [op |-> "Propagated", val |-> "a"]
        /\ dls["email"].batches = <<>>

\* The values at the positions whose error is nil, in order.
NilErrorValues(values, errors) ==
    LET idx == SelectSeq([i \in 1..Len(values) |-> i], LAMBDA i : errors[i] = Nil)
    IN [j \in 1..Len(idx) |-> values[idx[j]]]

\* C15: when AttrDataLoader.LoadAll of an attribute with a propagator has
\* returned, the propagator has been invoked once for every position whose
\* error is nil, with the value at that position, and for no other position.
C15_LoadAllPropagates ==
    \A t \in Threads :
        (HasReturned(t) /\ Routed(t) /\ calls[t].op = "LoadAll"
            /\ calls[t].attribute \in Propagators) =>
            calls[t].props = NilErrorValues(calls[t].values, calls[t].errors)

\* C16 as stated: the cache holds no entry for a key for which the fetch that
\* finished last among the batches holding the key reported an error.
C16_NoEntryAfterError ==
    \A k \in Keys : lastFetch[k] = "err" => k \notin DOMAIN cache

\* C16: every cache entry was stored by Prime, or by a thunk of a finished
\* batch whose fetch reported no error for the key and returned the stored
\* value for it; no entry comes from a fetch that reported an error for the
\* key.
C16_EntriesFromSuccess ==
    \A k \in DOMAIN cache :
        \/ hist[k].op = "Prime" /\ cache[k] = hist[k].val
        \/ /\ hist[k].op = "Set"
           /\ \E bi \in 1..Len(batches) :
                  LET b == batches[bi] IN
                  /\ b.done > 0
                  /\ \E p \in 1..Len(b.arg) :
                         /\ b.arg[p] = k
                         /\ DocError(b, p) = Nil
                         /\ DocValue(b, p) = cache[k]

\* A Load of K through a batch resolved without error, a thunk cached K, and
\* the fetch that finished last with K reported an error for K: the entry
\* comes from an earlier batch that held K.
C16_Witness ==
    \E k \in Keys : \E t \in Threads :
        /\ lastFetch[k] = "err"
        /\ k \in DOMAIN cache
        /\ hist[k].op = "Set"
        /\ threads[t].op = "Load" /\ threads[t].keys = <<k>>
        /\ threads[t].pc = "idle" /\ threads[t].errors = <<Nil>>
        /\ ~threads[t].thunks[1].hit

\* No finalisation of batch b has begun: it is open.
IsOpen(b) == ~b.closing /\ b.ending = 0 /\ b.fetched = 0

\* C17: l.batch, when not nil, is a batch that is not closing; every open
\* batch is l.batch, so there is at most one; a batch that is handed to
\* end, is being fetched, is done, or has released a waiter is not l.batch.
C17_OneOpenBatch ==
    /\ cur # NoBatch => cur \in 1..Len(batches) /\ ~batches[cur].closing
    /\ \A bi \in 1..Len(batches) :
           /\ IsOpen(batches[bi]) => cur = bi
           /\ (\/ batches[bi].ending > 0
               \/ batches[bi].fetched > 0
               \/ batches[bi].done > 0
               \/ Released(bi)) => cur # bi

\* The timer detached the first batch, which is done; the size cap closed
\* the second batch, which is being fetched.
C17_Witness ==
    /\ Len(batches) = 2
    /\ ~batches[1].closing /\ batches[1].timer = "exited" /\ batches[1].done = 1
    /\ batches[2].closing /\ batches[2].fetching = 1
    /\ cur = NoBatch

\* C18: no step changes the key list of a batch that is not l.batch or that
\* has been handed to end; fetch is called with that key list, which stays
\* as it is while fetch runs; a LoadThunk that misses the cache obtains its
\* position in l.batch or, when l.batch is nil, in a batch allocated in the
\* same step, which holds just its key, has its own timer started and has
\* not been handed to end.
C18_DetachedIsFrozen ==
    [][/\ \A bi \in 1..Len(batches) :
             LET b == batches[bi] IN
             /\ (bi # cur \/ b.ending + b.fetched > 0) =>
                    batches'[bi].keys = b.keys
             /\ endFetch(bi) => batches'[bi].arg = b.keys
             /\ b.fetching > 0 =>
                    b.arg = b.keys /\ batches'[bi].arg = b.arg
       /\ \A t \in Threads :
             (LoadThunkStep(t) /\ ~NewThunk(t).hit) =>
                 IF cur # NoBatch THEN NewThunk(t).batch = cur
                 ELSE /\ NewThunk(t).batch = Len(batches) + 1
                      /\ Len(batches') = Len(batches) + 1
                      /\ batches'[Len(batches')].keys = <<NextKey(t)>>
                      /\ batches'[Len(batches')].timer = "sleeping"
                      /\ batches'[Len(batches')].fetched = 0
                      /\ batches'[Len(batches')].done = 0]_vars

\* The timer detached a batch holding K and its fetch is running; a Load of
\* K that came later sits alone in a second batch, whose timer is asleep.
C18_Witness ==
    \E t \in Threads :
        /\ Len(batches) = 2
        /\ ~batches[1].closing /\ batches[1].fetching = 1
        /\ batches[2].keys = batches[1].arg
        /\ batches[2].timer = "sleeping"
        /\ cur = 2
        /\ threads[t].pc = "resolve"
        /\ threads[t].thunks[1] = MissThunk(batches[1].arg[1], 2, 0)

\* C19: Clear changes no batch, not l.batch, and no caller's thunks; the key
\* of every thunk stays at the thunk's position in its batch and in the key
\* list fetch is called with; and a thunk that returns yields what the fetch
\* of its batch returned for its position, whatever was cleared meanwhile.
C19_ClearLeavesBatches ==
    /\ [](\A t \in Threads : \A j \in 1..Len(threads[t].thunks) :
             LET thunk == threads[t].thunks[j] IN
             ~thunk.hit =>
                 /\ batches[thunk.batch].keys[thunk.pos + 1] = thunk.key
                 /\ batches[thunk.batch].fetched >= 1 =>
                        batches[thunk.batch].arg[thunk.pos + 1] = thunk.key)
    /\ [][/\ \A key \in Keys : Clear(key) => UNCHANGED <<cur, batches, threads>>
          /\ \A t \in Threads :
                (ThunkReturns(t) /\ ~CurThunk(t).hit) =>
                    LET b == batches[CurThunk(t).batch]
                        n == Len(threads'[t].values)
                    IN /\ threads'[t].values[n] = DocValue(b, CurThunk(t).pos + 1)
                       /\ threads'[t].errors[n] = DocError(b, CurThunk(t).pos + 1)]_vars

\* Clear(K) ran while the only batch held K and was not done; the batch was
\* then fetched with K, is done, and the waiter of K is about to resolve.
C19_Witness ==
    \E t \in Threads :
        /\ Len(batches) = 1
        /\ threads[t].op = "Load" /\ threads[t].pc = "resolve"
        /\ ~threads[t].thunks[1].hit
        /\ hist[threads[t].keys[1]].op = "Clear"
        /\ hist[threads[t].keys[1]].held
        /\ batches[1].arg = threads[t].keys
        /\ batches[1].done = 1
        /\ batches[1].data = <<"a">>
        /\ batches[1].error = NilErrSlice

\* The mutexes goroutine g holds.
Held(g) == {m \in Mutexes : mu[m] = g}

\* Caller t holds l.mu of a DataLoader after a LoadThunk that gave it a
\* position in batch bi of the loader of attribute a.
EnqueuedUnderLock(t, a, bi) ==
    /\ calls[t].pc = "dataUnlock"
    /\ calls[t].fattr = a
    /\ ~calls[t].thunks[Len(calls[t].thunks)].hit
    /\ calls[t].thunks[Len(calls[t].thunks)].batch = bi

\* C20: a caller holds at most one mutex; it holds none when it enters a
\* layer (before each Lock), when it waits for a batch, when it runs the
\* propagator and when it has returned; inside loader() it holds the mutex
\* of that layer only, inside a DataLoader operation that loader's mutex
\* only. The timer goroutine of a batch holds l.mu only between its Lock and
\* its Unlock, and not while the batch is handed to end or fetched: fetch is
\* called by a goroutine that holds no mutex.
C20_LockDiscipline ==
    /\ \A t \in Threads :
           /\ Cardinality(Held(t)) <= 1
           /\ calls[t].pc \in {"idle", "returned", "objLock", "attrLock", "dataLock",
                                "thunk", "propagate", "panic"} => Held(t) = {}
           /\ calls[t].pc = "objLoader" => Held(t) = {MuObj}
           /\ calls[t].pc = "attrLoader" => Held(t) = {MuAttr}
           /\ calls[t].pc \in {"LoadThunk", "dataUnlock", "prime", "Clear", "unsafeSet"} =>
                  Held(t) = {MuData(calls[t].fattr)}
    /\ \A a \in RegAttributes : \A bi \in 1..Len(dls[a].batches) :
           LET b == dls[a].batches[bi] IN
           /\ Held(TimerOf(bi)) \subseteq {MuData(x) : x \in RegAttributes}
           /\ mu[MuData(a)] = TimerOf(bi) => b.timer = "locked"
           /\ (~b.closing /\ b.ending + b.fetched > 0) => mu[MuData(a)] # TimerOf(bi)

\* C20 as stated: the above, and on the size-cap path too l.mu is released
\* before fetch is called: no batch has been fetched while the caller whose
\* LoadThunk closed it still holds l.mu.
C20_FetchAfterUnlock ==
    /\ C20_LockDiscipline
    /\ \A t \in Threads : \A a \in RegAttributes : \A bi \in 1..Len(dls[a].batches) :
           EnqueuedUnderLock(t, a, bi) => dls[a].batches[bi].fetched = 0

\* One caller is in the Prime its propagator makes and holds the mutex of
\* the loader of "email" only; the other holds the mutex of the loader of
\* "id" after the LoadThunk that closed a batch, and the goroutine started
\* for that batch has called fetch.
C20_Witness ==
    \E t1, t2 \in Threads :
        /\ calls[t1].pc = "prime" /\ calls[t1].inProp
        /\ Held(t1) = {MuData("email")}
        /\ calls[t2].pc = "dataUnlock"
        /\ Held(t2) = {MuData("id")}
        /\ \E bi \in 1..Len(dls["id"].batches) :
               /\ EnqueuedUnderLock(t2, "id", bi)
               /\ dls["id"].batches[bi].closing
               /\ dls["id"].batches[bi].fetching = 1

\* C21: no caller waits for a mutex of the loaders while it holds one, and
\* under fair scheduling a propagator that has been invoked and calls back
\* into the AttrDataLoader (Prime, ForcePrime or Clear, on its own or on a
\* sibling attribute) returns, whatever the other callers do.
C21_PropagatorCompletes ==
    /\ [](\A t \in Threads : calls[t].pc \in {"objLock", "attrLock", "dataLock"}
                                => \A m \in Mutexes : mu[m] # t)
    /\ \A t \in Threads : calls[t].inProp ~> ~calls[t].inProp

\* One caller's propagator is inside loader("email"), with no loader of
\* "email" constructed yet, and holds AttrDataLoader.mu; the other caller's
\* propagator wants to clear its own attribute "id" and waits for that mutex.
C21_Witness ==
    \E t1, t2 \in Threads :
        /\ calls[t1].inProp /\ calls[t1].pc = "attrLoader" /\ calls[t1].fattr = "email"
        /\ "email" \notin DOMAIN attrLoaders
        /\ mu[MuAttr] = t1
        /\ calls[t2].inProp /\ calls[t2].pc = "attrLock"
        /\ calls[t2].fn = "Clear" /\ calls[t2].fattr = "id" /\ calls[t2].attribute = "id"

\* C22: under fair scheduling, with a fetch that always returns, every batch
\* that was opened is finalized (its done signal is closed) and every Load
\* and LoadAll call that was made returns.
C22_CallsReturn ==
    /\ \A bi \in 1..MaxBatches :
           (Len(batches) >= bi) ~> (Len(batches) >= bi /\ batches[bi].done > 0)
    /\ \A t \in Threads : (threads[t].pc # "idle") ~> (threads[t].pc = "idle")

\* C22, the part that holds: every batch that was opened is finalized, and
\* every caller gets past the done signal of the batch it waits for: its
\* call returns, or its thunk panics on the error slice that fetch returned.
C22_NoWaiterBlocked ==
    /\ \A bi \in 1..MaxBatches :
           (Len(batches) >= bi) ~> (Len(batches) >= bi /\ batches[bi].done > 0)
    /\ \A t \in Threads :
           (threads[t].pc # "idle") ~> (threads[t].pc \in {"idle", "panic"})

====
